---- MODULE Spec2Model ----
(***************************************************************************)
(* The content-processing pipeline of the Study Content Converter          *)
(* (src/app.py): text extraction, the Summary / Voice Note / Visual        *)
(* Explanation stages of process_content, the statistics and the history   *)
(* list of display_results, and the history page show_history.             *)
(*                                                                         *)
(* A Python str is a sequence of code points, bytes a sequence of 0..255.  *)
(* A value that may be None is a record [none, text].                      *)
(***************************************************************************)
EXTENDS Integers, Sequences, FiniteSets, TLC

----------------------------------------------------------------------------
(* Python values *)

None == [none |-> TRUE, text |-> << >>]

Str(s) == [none |-> FALSE, text |-> s]

\* bool(v) of a value that is None, a str or bytes
Truthy(v) == ~v.none /\ Len(v.text) > 0

\* s[:n]
Slice(s, n) == SubSeq(s, 1, IF Len(s) < n THEN Len(s) ELSE n)

\* str.isspace() of one code point
IsSpace(c) ==
  \/ (c >= 9 /\ c <= 13)
  \/ (c >= 28 /\ c <= 32)
  \/ c = 133 \/ c = 160 \/ c = 5760
  \/ (c >= 8192 /\ c <= 8202)
  \/ c = 8232 \/ c = 8233 \/ c = 8239 \/ c = 8287 \/ c = 12288

\* str.strip(): leading and trailing whitespace removed
Strip(s) ==
  LET n == Len(s)
  IN  IF \A i \in 1..n : IsSpace(s[i]) THEN << >>
      ELSE LET lo == CHOOSE i \in 1..n :
                       ~IsSpace(s[i]) /\ \A j \in 1..(i - 1) : IsSpace(s[j])
               hi == IF ~IsSpace(s[n]) THEN n
                     ELSE CHOOSE i \in 1..n :
                            ~IsSpace(s[i]) /\ \A j \in (i + 1)..n : IsSpace(s[j])
           IN  SubSeq(s, lo, hi)

\* bytes.decode('utf-8'), strict: [ok |-> FALSE] stands for UnicodeDecodeError
IsCont(b) == b >= 128 /\ b <= 191

RECURSIVE DecodeUtf8(_)
DecodeUtf8(b) ==
  IF b = << >> THEN [ok |-> TRUE, text |-> << >>]
  ELSE
    LET b1 == b[1]
        n  == Len(b)
        size == IF b1 < 128 THEN 1
                ELSE IF b1 >= 194 /\ b1 <= 223 THEN 2
                ELSE IF b1 >= 224 /\ b1 <= 239 THEN 3
                ELSE IF b1 >= 240 /\ b1 <= 244 THEN 4
                ELSE 0
        wellFormed ==
          /\ size > 0
          /\ n >= size
          /\ \A i \in 2..size : IsCont(b[i])
          /\ (b1 = 224 => b[2] >= 160)
          /\ (b1 = 237 => b[2] <= 159)
          /\ (b1 = 240 => b[2] >= 144)
          /\ (b1 = 244 => b[2] <= 143)
        cp == IF size = 1 THEN b1
              ELSE IF size = 2 THEN (b1 - 192) * 64 + (b[2] - 128)
              ELSE IF size = 3
                   THEN (b1 - 224) * 4096 + (b[2] - 128) * 64 + (b[3] - 128)
              ELSE (b1 - 240) * 262144 + (b[2] - 128) * 4096
                   + (b[3] - 128) * 64 + (b[4] - 128)
    IN  IF ~wellFormed THEN [ok |-> FALSE, text |-> << >>]
        ELSE LET rest == DecodeUtf8(SubSeq(b, size + 1, n))
             IN  IF rest.ok THEN [ok |-> TRUE, text |-> <<cp>> \o rest.text]
                 ELSE rest

----------------------------------------------------------------------------
(* The fixed texts of the two prompts, as code points *)

GptPromptHead ==
  <<
    10, 32, 32, 32, 32, 32, 32, 32, 32, 32, 32, 32, 32, 80, 108, 101, 97, 115, 101, 32,
    115, 105, 109, 112, 108, 105, 102, 121, 32, 116, 104, 101, 32, 102, 111, 108, 108, 111, 119, 105,
    110, 103, 32, 97, 99, 97, 100, 101, 109, 105, 99, 47, 114, 101, 115, 101, 97, 114, 99, 104,
    32, 99, 111, 110, 116, 101, 110, 116, 32, 102, 111, 114, 32 >>

GptPromptMiddle ==
  <<
    32, 108, 101, 118, 101, 108, 32, 117, 110, 100, 101, 114, 115, 116, 97, 110, 100, 105, 110, 103,
    58, 10, 32, 32, 32, 32, 32, 32, 32, 32, 32, 32, 32, 32, 10, 32, 32, 32, 32, 32,
    32, 32, 32, 32, 32, 32, 32, 82, 101, 113, 117, 105, 114, 101, 109, 101, 110, 116, 115, 58,
    10, 32, 32, 32, 32, 32, 32, 32, 32, 32, 32, 32, 32, 49, 46, 32, 66, 114, 101, 97,
    107, 32, 100, 111, 119, 110, 32, 99, 111, 109, 112, 108, 101, 120, 32, 99, 111, 110, 99, 101,
    112, 116, 115, 32, 105, 110, 116, 111, 32, 115, 105, 109, 112, 108, 101, 32, 101, 120, 112, 108,
    97, 110, 97, 116, 105, 111, 110, 115, 10, 32, 32, 32, 32, 32, 32, 32, 32, 32, 32, 32,
    32, 50, 46, 32, 85, 115, 101, 32, 97, 110, 97, 108, 111, 103, 105, 101, 115, 32, 97, 110,
    100, 32, 101, 120, 97, 109, 112, 108, 101, 115, 32, 119, 104, 101, 114, 101, 32, 104, 101, 108,
    112, 102, 117, 108, 10, 32, 32, 32, 32, 32, 32, 32, 32, 32, 32, 32, 32, 51, 46, 32,
    67, 114, 101, 97, 116, 101, 32, 98, 117, 108, 108, 101, 116, 32, 112, 111, 105, 110, 116, 115,
    32, 102, 111, 114, 32, 107, 101, 121, 32, 99, 111, 110, 99, 101, 112, 116, 115, 10, 32, 32,
    32, 32, 32, 32, 32, 32, 32, 32, 32, 32, 52, 46, 32, 77, 97, 105, 110, 116, 97, 105,
    110, 32, 97, 99, 99, 117, 114, 97, 99, 121, 32, 119, 104, 105, 108, 101, 32, 105, 109, 112,
    114, 111, 118, 105, 110, 103, 32, 99, 108, 97, 114, 105, 116, 121, 10, 32, 32, 32, 32, 32,
    32, 32, 32, 32, 32, 32, 32, 53, 46, 32, 77, 97, 120, 105, 109, 117, 109, 32, 53, 48,
    48, 32, 119, 111, 114, 100, 115, 32, 102, 111, 114, 32, 115, 117, 109, 109, 97, 114, 121, 10,
    32, 32, 32, 32, 32, 32, 32, 32, 32, 32, 32, 32, 10, 32, 32, 32, 32, 32, 32, 32,
    32, 32, 32, 32, 32, 67, 111, 110, 116, 101, 110, 116, 32, 116, 111, 32, 115, 105, 109, 112,
    108, 105, 102, 121, 58, 10, 32, 32, 32, 32, 32, 32, 32, 32, 32, 32, 32, 32 >>

GptPromptTail ==
  <<
    10, 32, 32, 32, 32, 32, 32, 32, 32, 32, 32, 32, 32 >>

VisualPromptHead ==
  <<
    10, 32, 32, 32, 32, 32, 32, 32, 32, 32, 32, 32, 32, 67, 114, 101, 97, 116, 101, 32,
    97, 32, 115, 105, 109, 112, 108, 101, 32, 105, 110, 102, 111, 103, 114, 97, 112, 104, 105, 99,
    32, 111, 114, 32, 100, 105, 97, 103, 114, 97, 109, 32, 116, 111, 32, 101, 120, 112, 108, 97,
    105, 110, 58, 10, 32, 32, 32, 32, 32, 32, 32, 32, 32, 32, 32, 32, 10, 32, 32, 32,
    32, 32, 32, 32, 32, 32, 32, 32, 32 >>

VisualPromptTail ==
  <<
    10, 32, 32, 32, 32, 32, 32, 32, 32, 32, 32, 32, 32, 10, 32, 32, 32, 32, 32, 32,
    32, 32, 32, 32, 32, 32, 86, 105, 115, 117, 97, 108, 32, 101, 108, 101, 109, 101, 110, 116,
    115, 32, 115, 104, 111, 117, 108, 100, 32, 105, 110, 99, 108, 117, 100, 101, 58, 10, 32, 32,
    32, 32, 32, 32, 32, 32, 32, 32, 32, 32, 45, 32, 75, 101, 121, 32, 99, 111, 110, 99,
    101, 112, 116, 115, 32, 97, 115, 32, 98, 111, 120, 101, 115, 32, 111, 114, 32, 99, 105, 114,
    99, 108, 101, 115, 10, 32, 32, 32, 32, 32, 32, 32, 32, 32, 32, 32, 32, 45, 32, 67,
    111, 110, 110, 101, 99, 116, 105, 110, 103, 32, 97, 114, 114, 111, 119, 115, 32, 115, 104, 111,
    119, 105, 110, 103, 32, 114, 101, 108, 97, 116, 105, 111, 110, 115, 104, 105, 112, 115, 10, 32,
    32, 32, 32, 32, 32, 32, 32, 32, 32, 32, 32, 45, 32, 83, 105, 109, 112, 108, 101, 32,
    105, 99, 111, 110, 115, 32, 111, 114, 32, 115, 121, 109, 98, 111, 108, 115, 10, 32, 32, 32,
    32, 32, 32, 32, 32, 32, 32, 32, 32, 45, 32, 67, 108, 101, 97, 114, 44, 32, 114, 101,
    97, 100, 97, 98, 108, 101, 32, 116, 101, 120, 116, 10, 32, 32, 32, 32, 32, 32, 32, 32,
    32, 32, 32, 32, 45, 32, 66, 114, 105, 103, 104, 116, 44, 32, 101, 110, 103, 97, 103, 105,
    110, 103, 32, 99, 111, 108, 111, 114, 115, 10, 32, 32, 32, 32, 32, 32, 32, 32, 32, 32,
    32, 32 >>

LevelText(level) ==
  CASE level = "beginner"     -> <<98, 101, 103, 105, 110, 110, 101, 114>>
    [] level = "intermediate" -> <<105, 110, 116, 101, 114, 109, 101, 100, 105, 97, 116, 101>>
    [] level = "advanced"     -> <<97, 100, 118, 97, 110, 99, 101, 100>>

----------------------------------------------------------------------------
(* Program constants *)

SummaryLimit == 4000

VoiceLimit == 1000

VoiceFallbackLimit == 1000

VisualFallbackLimit == 500

VisualLimit == 300

HistoryLimit == 10

Levels == {"beginner", "intermediate", "advanced"}

Formats == {"Summary", "Voice Note", "Visual Explanation"}

----------------------------------------------------------------------------
(* StudyContentProcessor *)

RECURSIVE PdfText(_)
\* the loop of extract_text_from_pdf: text += page.extract_text() + "\n"
PdfText(pages) ==
  IF pages = << >> THEN << >>
  ELSE Head(pages) \o <<10>> \o PdfText(Tail(pages))

\* An uploaded PDF is unreadable (PdfReader or a page raises) or a sequence of
\* page texts.
extract_text_from_pdf(file) ==
  IF file.readable
  THEN [value |-> Str(PdfText(file.pages)), messages |-> << >>]
  ELSE [value |-> None, messages |-> <<"Error extracting PDF text">>]

\* text_chunk cut one character short
text_chunk_OffByOne(text) ==
  IF Len(text) > SummaryLimit THEN Slice(text, SummaryLimit - 1) ELSE text

text_chunk(text) ==
  IF Len(text) > SummaryLimit THEN Slice(text, SummaryLimit) ELSE text

GptPrompt(text, level) ==
  GptPromptHead \o LevelText(level) \o GptPromptMiddle
                \o text_chunk(text) \o GptPromptTail

\* outcome: what openai.ChatCompletion.create does when it is called:
\* [raises |-> TRUE] or the content of the first choice. Each call is logged
\* with its input and what came back.
simplify_content_with_gpt(key, text, level, outcome) ==
  IF ~key
  THEN [value |-> None, messages |-> <<"OpenAI API key not configured">>,
        calls |-> << >>]
  ELSE LET call == [api |-> "openai.ChatCompletion.create",
                    input |-> GptPrompt(text, level),
                    raised |-> outcome.raises, output |-> outcome.content]
       IN  IF outcome.raises
           THEN [value |-> None, messages |-> <<"Error with GPT processing">>,
                 calls |-> <<call>>]
           ELSE [value |-> Str(outcome.content), messages |-> << >>,
                 calls |-> <<call>>]

\* tts_text without the length limit
tts_text_NoLimit(text) == text

tts_text(text) ==
  IF Len(text) > VoiceLimit THEN Slice(text, VoiceLimit) ELSE text

\* outcome: what tts_client.synthesize_speech does when it is called:
\* [raises |-> TRUE] or the audio_content of the response
generate_voice_note(client, text, outcome) ==
  IF client
  THEN LET call == [api |-> "tts_client.synthesize_speech",
                    input |-> tts_text(text),
                    raised |-> outcome.raises, output |-> outcome.content]
       IN  IF outcome.raises
           THEN [value |-> None, messages |-> <<"Error generating voice note">>,
                 calls |-> <<call>>]
           ELSE [value |-> Str(outcome.content), messages |-> << >>,
                 calls |-> <<call>>]
  ELSE [value |-> None, messages |-> <<"Google Cloud TTS not configured">>,
        calls |-> << >>]

create_visual_explanation(summary_text) ==
  Str(VisualPromptHead \o Slice(summary_text, VisualLimit) \o VisualPromptTail)

----------------------------------------------------------------------------
(* dict helpers *)

EmptyDict == [k \in {} |-> << >>]

\* d.get(key, default)
Get(d, key, default) == IF key \in DOMAIN d THEN d[key] ELSE default

\* d[key] = value
Put(d, key, value) == (key :> value) @@ d

\* StoreIf testing "value is not None" in place of the truth value
StoreIf_NotNone(res, key, value) ==
  IF ~value.none THEN Put(res, key, value.text) ELSE res

\* "if value: results[key] = value"
StoreIf(res, key, value) ==
  IF Truthy(value) THEN Put(res, key, value.text) ELSE res

----------------------------------------------------------------------------
(* Bounds and the inputs drawn from them *)

MaxRuns == 12

HelloWorld == <<72, 101, 108, 108, 111, 32, 119, 111, 114, 108, 100>>

\* a text of n lower-case letters, and a model reply of n upper-case letters
Text(n) == [i \in 1..n |-> 97 + (i % 26)]

Reply(n) == [i \in 1..n |-> 65 + (i % 26)]

NoFile == [present |-> FALSE, type |-> "", readable |-> FALSE,
           pages |-> << >>, bytes |-> << >>]

Pdf(pages) == [present |-> TRUE, type |-> "application/pdf", readable |-> TRUE,
               pages |-> pages, bytes |-> << >>]

BrokenPdf == [present |-> TRUE, type |-> "application/pdf", readable |-> FALSE,
              pages |-> << >>, bytes |-> << >>]

Txt(bytes) == [present |-> TRUE, type |-> "text/plain", readable |-> TRUE,
               pages |-> << >>, bytes |-> bytes]

OtherFile(bytes) == [present |-> TRUE, type |-> "application/octet-stream",
                     readable |-> TRUE, pages |-> << >>, bytes |-> bytes]

Raises == [raises |-> TRUE, content |-> << >>]

Returns(content) == [raises |-> FALSE, content |-> content]

\* One request: every kind of upload, pasted texts on both sides of every
\* length limit, every outcome of the two capability calls
RequestFiles ==
  { NoFile, BrokenPdf, Pdf(<< >>), Pdf(<< << >> >>), Pdf(<< << >>, << >> >>),
    Pdf(<<HelloWorld, << >> >>),
    Txt(<< >>), Txt(<<32, 32, 32>>), Txt(HelloWorld),
    Txt(<<99, 97, 102, 195, 169>>), Txt(<<104, 105, 255>>),
    OtherFile(HelloWorld) }

RequestTexts ==
  { << >>, <<32, 10, 9>>, <<32, 97, 32>>, HelloWorld,
    Text(VisualLimit + 1), Text(SummaryLimit), Text(SummaryLimit + 1) }

RequestGptOutcomes ==
  { Raises, Returns(<< >>), Returns(Reply(5)),
    Returns(Reply(VisualLimit + 1)), Returns(Reply(VoiceLimit + 1)) }

RequestTtsOutcomes == { Raises, Returns(<< >>), Returns(<<73, 68, 51>>) }

\* A session of many requests: few inputs, so that the history can fill
SessionFiles == { NoFile, Txt(<< >>) }

SessionTexts == { << >>, HelloWorld }

SessionFormats == { Formats, {"Summary"} }

SessionGptOutcomes == { Returns(Reply(5)) }

SessionTtsOutcomes == { Returns(<<73, 68, 51>>) }

----------------------------------------------------------------------------
(* State *)

VARIABLES
  api_key,                  \* openai.api_key is set
  tts_client,               \* processor.tts_client is set
  has_processed_documents,  \* "processed_documents" in st.session_state
  processed_documents,      \* st.session_state.processed_documents
  now,                      \* datetime.now(), one tick per recorded entry
  accepted_runs,            \* the runs that passed the input check, counted
  pc,                       \* where the script is
  uploaded_file, manual_text, complexity_level, output_formats,
  text_content,             \* process_content's local
  results,                  \* process_content's local
  stage_log,                \* the stage blocks entered by the last run, in order
  api_calls,                \* the requests the last run sent to the capabilities
  st_log,                   \* what the last run wrote to the page
  metrics,                  \* the statistics display_results showed
  shown                     \* the documents show_history listed

vars == << api_key, tts_client, has_processed_documents, processed_documents,
           now, accepted_runs, pc, uploaded_file, manual_text, complexity_level,
           output_formats, text_content, results, stage_log, api_calls,
           st_log, metrics, shown >>

config == << api_key, tts_client >>

session == << has_processed_documents, processed_documents, now >>

Min(a, b) == IF a < b THEN a ELSE b

args == << uploaded_file, manual_text, complexity_level, output_formats >>

NoMetrics == [original_length |-> 0, summary_length |-> 0,
              compression |-> [num |-> 0, den |-> 1]]

NothingShown == [info |-> FALSE, documents |-> << >>]

FreshRun ==
  /\ text_content = Str(<< >>)
  /\ results = EmptyDict
  /\ stage_log = << >>
  /\ api_calls = << >>
  /\ st_log = << >>
  /\ metrics = NoMetrics
  /\ shown = NothingShown

\* The process starts: setup_apis has run, the session state is empty and the
\* widgets hold their defaults
Init ==
  /\ api_key \in BOOLEAN
  /\ tts_client \in BOOLEAN
  /\ has_processed_documents = FALSE
  /\ processed_documents = << >>
  /\ now = 0
  /\ accepted_runs = 0
  /\ pc = "idle"
  /\ uploaded_file = NoFile
  /\ manual_text = << >>
  /\ complexity_level = "beginner"
  /\ output_formats = {"Summary"}
  /\ FreshRun

\* One request in a fresh session: the button has been pressed with the
\* widgets holding any of the request inputs
InitRequest ==
  /\ api_key \in BOOLEAN
  /\ tts_client \in BOOLEAN
  /\ has_processed_documents = FALSE
  /\ processed_documents = << >>
  /\ now = 0
  /\ accepted_runs = 0
  /\ pc = "process_content"
  /\ uploaded_file \in RequestFiles
  /\ manual_text \in RequestTexts
  /\ complexity_level \in Levels
  /\ output_formats \in SUBSET Formats
  /\ FreshRun

----------------------------------------------------------------------------
(* main: the button is pressed with the widgets holding these inputs *)

\* the script reruns: the page and the locals of the last run are gone
Rerun ==
  /\ text_content' = Str(<< >>)
  /\ results' = EmptyDict
  /\ stage_log' = << >>
  /\ api_calls' = << >>
  /\ st_log' = << >>
  /\ metrics' = NoMetrics
  /\ shown' = NothingShown

Click(files, texts, levels, formatsets) ==
  /\ pc = "idle"
  /\ accepted_runs < MaxRuns
  /\ \E f \in files, t \in texts, l \in levels, o \in formatsets :
       /\ uploaded_file' = f
       /\ manual_text' = t
       /\ complexity_level' = l
       /\ output_formats' = o
  /\ pc' = "process_content"
  /\ Rerun
  /\ UNCHANGED << config, session, accepted_runs >>

----------------------------------------------------------------------------
(* process_content *)

\* ExtractedText falling back to the pasted text when the upload gives none
ExtractedText_FallsBack(file, manual) ==
  LET fromFile ==
        IF file.type = "application/pdf"
        THEN LET r == extract_text_from_pdf(file)
             IN  [raised |-> FALSE, value |-> r.value, messages |-> r.messages]
        ELSE IF file.type = "text/plain"
        THEN LET d == DecodeUtf8(file.bytes)
             IN  IF d.ok
                 THEN [raised |-> FALSE, value |-> Str(d.text), messages |-> << >>]
                 ELSE [raised |-> TRUE, value |-> Str(<< >>),
                       messages |-> <<"UnicodeDecodeError">>]
        ELSE [raised |-> FALSE, value |-> Str(<< >>), messages |-> << >>]
  IN  IF file.present /\ (fromFile.raised \/ Truthy(fromFile.value))
      THEN fromFile
      ELSE IF Truthy(Str(Strip(manual)))
      THEN [raised |-> FALSE, value |-> Str(manual),
            messages |-> IF file.present THEN fromFile.messages ELSE << >>]
      ELSE [raised |-> FALSE, value |-> Str(<< >>),
            messages |-> IF file.present THEN fromFile.messages ELSE << >>]

\* "Extract text": [raised] stands for the uncaught UnicodeDecodeError
ExtractedText(file, manual) ==
  IF file.present
  THEN IF file.type = "application/pdf"
       THEN LET r == extract_text_from_pdf(file)
            IN  [raised |-> FALSE, value |-> r.value, messages |-> r.messages]
       ELSE IF file.type = "text/plain"
       THEN LET d == DecodeUtf8(file.bytes)
            IN  IF d.ok
                THEN [raised |-> FALSE, value |-> Str(d.text), messages |-> << >>]
                ELSE [raised |-> TRUE, value |-> Str(<< >>),
                      messages |-> <<"UnicodeDecodeError">>]
       ELSE [raised |-> FALSE, value |-> Str(<< >>), messages |-> << >>]
  ELSE IF Truthy(Str(Strip(manual)))
       THEN [raised |-> FALSE, value |-> Str(manual), messages |-> << >>]
       ELSE [raised |-> FALSE, value |-> Str(<< >>), messages |-> << >>]

\* "if not text_content"
InputRejected(value) == ~Truthy(value)

InputErrorMessage == "Please upload a file or paste some text content."

AcceptedMessage == "Content extracted successfully!"

\* ExtractText without the early return after the error message
ExtractText_NoReturn ==
  /\ pc = "process_content"
  /\ LET e == ExtractedText(uploaded_file, manual_text)
     IN  /\ text_content' = e.value
         /\ IF e.raised
            THEN /\ st_log' = st_log \o e.messages
                 /\ pc' = "idle"
                 /\ UNCHANGED accepted_runs
            ELSE IF InputRejected(e.value)
            THEN /\ st_log' = st_log \o e.messages \o <<InputErrorMessage>>
                 /\ pc' = "summary"
                 /\ UNCHANGED accepted_runs
            ELSE /\ st_log' = st_log \o e.messages \o <<AcceptedMessage>>
                 /\ pc' = "summary"
                 /\ accepted_runs' = accepted_runs + 1
  /\ results' = EmptyDict
  /\ UNCHANGED << config, session, args, stage_log, api_calls, metrics, shown >>

ExtractText ==
  /\ pc = "process_content"
  /\ LET e == ExtractedText(uploaded_file, manual_text)
     IN  /\ text_content' = e.value
         /\ IF e.raised
            THEN /\ st_log' = st_log \o e.messages
                 /\ pc' = "idle"
                 /\ UNCHANGED accepted_runs
            ELSE IF InputRejected(e.value)
            THEN /\ st_log' = st_log \o e.messages \o <<InputErrorMessage>>
                 /\ pc' = "idle"
                 /\ UNCHANGED accepted_runs
            ELSE /\ st_log' = st_log \o e.messages \o <<AcceptedMessage>>
                 /\ pc' = "summary"
                 /\ accepted_runs' = accepted_runs + 1
  /\ results' = EmptyDict
  /\ UNCHANGED << config, session, args, stage_log, api_calls, metrics, shown >>

\* "Generate summary"
SummaryStage(outcomes) ==
  /\ pc = "summary"
  /\ IF "Summary" \in output_formats
     THEN \E o \in outcomes :
            LET r == simplify_content_with_gpt(api_key, text_content.text,
                                               complexity_level, o)
            IN  /\ results' = StoreIf(results, "summary", r.value)
                /\ st_log' = st_log \o r.messages
                /\ api_calls' = api_calls \o r.calls
                /\ stage_log' = Append(stage_log, "Summary")
     ELSE UNCHANGED << results, st_log, api_calls, stage_log >>
  /\ pc' = "voice"
  /\ UNCHANGED << config, session, accepted_runs, args, text_content, metrics,
                  shown >>

text_for_voice(res, text) == Get(res, "summary", Slice(text, VoiceFallbackLimit))

\* VoiceStage with the exception of the call left uncaught
VoiceStage_Uncaught(outcomes) ==
  /\ pc = "voice"
  /\ IF "Voice Note" \in output_formats
     THEN \E o \in outcomes :
            LET r == generate_voice_note(
                       tts_client, text_for_voice(results, text_content.text), o)
            IN  /\ results' = StoreIf(results, "audio", r.value)
                /\ st_log' = st_log \o r.messages
                /\ api_calls' = api_calls \o r.calls
                /\ stage_log' = Append(stage_log, "Voice Note")
                /\ pc' = IF tts_client /\ o.raises THEN "idle" ELSE "visual"
     ELSE /\ UNCHANGED << results, st_log, api_calls, stage_log >>
          /\ pc' = "visual"
  /\ UNCHANGED << config, session, accepted_runs, args, text_content, metrics,
                  shown >>

\* "Generate voice note"
VoiceStage(outcomes) ==
  /\ pc = "voice"
  /\ IF "Voice Note" \in output_formats
     THEN \E o \in outcomes :
            LET r == generate_voice_note(
                       tts_client, text_for_voice(results, text_content.text), o)
            IN  /\ results' = StoreIf(results, "audio", r.value)
                /\ st_log' = st_log \o r.messages
                /\ api_calls' = api_calls \o r.calls
                /\ stage_log' = Append(stage_log, "Voice Note")
     ELSE UNCHANGED << results, st_log, api_calls, stage_log >>
  /\ pc' = "visual"
  /\ UNCHANGED << config, session, accepted_runs, args, text_content, metrics,
                  shown >>

\* text_for_visual ignoring the summary
text_for_visual_OriginalOnly(res, text) == Slice(text, VisualFallbackLimit)

text_for_visual(res, text) == Get(res, "summary", Slice(text, VisualFallbackLimit))

\* VisualStage run only when the summary stage produced a summary
VisualStage_NeedsSummary ==
  /\ pc = "visual"
  /\ IF "Visual Explanation" \in output_formats /\ "summary" \in DOMAIN results
     THEN LET r == create_visual_explanation(
                     text_for_visual(results, text_content.text))
          IN  /\ results' = StoreIf(results, "visual", r)
              /\ stage_log' = Append(stage_log, "Visual Explanation")
     ELSE UNCHANGED << results, stage_log >>
  /\ pc' = "display"
  /\ UNCHANGED << config, session, accepted_runs, args, text_content, st_log,
                  api_calls, metrics, shown >>

\* "Generate visual explanation"
VisualStage ==
  /\ pc = "visual"
  /\ IF "Visual Explanation" \in output_formats
     THEN LET r == create_visual_explanation(
                     text_for_visual(results, text_content.text))
          IN  /\ results' = StoreIf(results, "visual", r)
              /\ stage_log' = Append(stage_log, "Visual Explanation")
     ELSE UNCHANGED << results, stage_log >>
  /\ pc' = "display"
  /\ UNCHANGED << config, session, args, text_content, st_log, api_calls,
                  metrics, shown, accepted_runs >>

----------------------------------------------------------------------------
(* display_results *)

\* compression_ratio, as the exact fraction num / den
Compression(res, original_text) ==
  IF "summary" \in DOMAIN res
  THEN [num |-> Len(Get(res, "summary", << >>)) * 100, den |-> Len(original_text)]
  ELSE [num |-> 0, den |-> 1]

Metrics(res, original_text) ==
  [original_length |-> Len(original_text),
   summary_length  |-> IF "summary" \in DOMAIN res THEN Len(res["summary"]) ELSE 0,
   compression     |-> Compression(res, original_text)]

document_entry(res, original_text, timestamp) ==
  [timestamp       |-> timestamp,
   original_length |-> Len(original_text),
   summary         |-> Get(res, "summary", << >>),
   has_audio       |-> "audio" \in DOMAIN res,
   has_visual      |-> "visual" \in DOMAIN res]

\* Insert0 appending at the end of the list
Insert0_AtEnd(docs, entry) == docs \o <<entry>>

\* processed_documents.insert(0, entry)
Insert0(docs, entry) == <<entry>> \o docs

\* KeepLast keeping one entry too many
KeepLast_OneMore(docs) == Slice(docs, HistoryLimit + 1)

\* processed_documents[:10]
KeepLast(docs) == Slice(docs, HistoryLimit)

DisplayResults ==
  /\ pc = "display"
  /\ IF Compression(results, text_content.text).den = 0
     THEN \* len(original_text) = 0 with a summary: the division raises
          /\ st_log' = st_log \o <<"Results", "ZeroDivisionError">>
          /\ UNCHANGED << session, metrics >>
     ELSE /\ st_log' = Append(st_log, "Results")
          /\ metrics' = Metrics(results, text_content.text)
          /\ has_processed_documents' = TRUE
          /\ processed_documents' =
               KeepLast(Insert0(processed_documents,
                                document_entry(results, text_content.text, now + 1)))
          /\ now' = now + 1
  /\ stage_log' = Append(stage_log, "display_results")
  /\ pc' = "idle"
  /\ UNCHANGED << config, accepted_runs, args, text_content, results, api_calls,
                  shown >>

----------------------------------------------------------------------------
(* show_history *)

Listing(docs) ==
  [i \in 1..Len(docs) |->
     [number |-> i, timestamp |-> docs[i].timestamp,
      original_length |-> docs[i].original_length,
      has_audio |-> docs[i].has_audio, has_visual |-> docs[i].has_visual,
      summary_shown |-> Len(docs[i].summary) > 0]]

ShowHistory ==
  /\ pc = "idle"
  /\ shown' = IF ~has_processed_documents \/ processed_documents = << >>
              THEN [info |-> TRUE, documents |-> << >>]
              ELSE [info |-> FALSE, documents |-> Listing(processed_documents)]
  /\ UNCHANGED << config, session, pc, args, text_content, results, stage_log,
                  api_calls, st_log, metrics, accepted_runs >>

----------------------------------------------------------------------------
(* Specifications *)

\* a session: any number of requests and history views
Next ==
  \/ Click(SessionFiles, SessionTexts, {"beginner"}, SessionFormats)
  \/ ExtractText
  \/ SummaryStage(SessionGptOutcomes)
  \/ VoiceStage(SessionTtsOutcomes)
  \/ VisualStage
  \/ DisplayResults
  \/ ShowHistory

Spec == Init /\ [][Next]_vars

\* one request, over the request inputs
NextRequest ==
  \/ ExtractText
  \/ SummaryStage(RequestGptOutcomes)
  \/ VoiceStage(RequestTtsOutcomes)
  \/ VisualStage
  \/ DisplayResults

SpecRequest == InitRequest /\ [][NextRequest]_vars

----------------------------------------------------------------------------
(* What a run shows of itself *)

Logged(message) == \E i \in 1..Len(st_log) : st_log[i] = message

InputErrorShown == Logged(InputErrorMessage)

Accepted == Logged(AcceptedMessage)

\* the extraction of the current run has finished without an uncaught exception
Extracted == pc # "process_content" /\ (InputErrorShown \/ Accepted)

\* the run has gone through display_results
ReachedStatistics ==
  pc = "idle" /\ \E i \in 1..Len(stage_log) : stage_log[i] = "display_results"

\* None, empty or whitespace only
Blank(value) == value.none \/ Strip(value.text) = << >>

\* the first n characters of s
Prefix(s, n) == [i \in 1..Min(n, Len(s)) |-> s[i]]

IsPrefix(s, t) == Len(s) <= Len(t) /\ \A i \in 1..Len(s) : s[i] = t[i]

HasSummary == "summary" \in DOMAIN results

GptCalls == SelectSeq(api_calls, LAMBDA c : c.api = "openai.ChatCompletion.create")

TtsCalls == SelectSeq(api_calls, LAMBDA c : c.api = "tts_client.synthesize_speech")

Delivered(calls) ==
  \E i \in 1..Len(calls) : ~calls[i].raised /\ Len(calls[i].output) > 0

Requested(format) == format \in output_formats

----------------------------------------------------------------------------
(* C1: a run ends in the input error if and only if the extracted text is  *)
(* empty or consists only of whitespace.                                   *)
(* The code rejects only a text that is None or empty: an upload whose     *)
(* text is whitespace only is accepted.                                    *)
C1_InputErrorIffBlank ==
  Extracted => (InputErrorShown <=> Blank(text_content))

----------------------------------------------------------------------------
C2_RejectedRunState ==
  InputErrorShown =>
    /\ pc = "idle"
    /\ api_calls = << >>
    /\ stage_log = << >>
    /\ results = EmptyDict
    /\ metrics = NoMetrics

C2_RejectedRunStep ==
  (pc = "process_content" /\ InputErrorShown') =>
    UNCHANGED << has_processed_documents, processed_documents, now >>

(* C2: a run that ends in the input error has no effect: no capability     *)
(* call, no stage, no artifact, and the history list is what it was,       *)
(* whatever the prior history and the requested formats.                   *)
C2_InputErrorHasNoEffect ==
  [] C2_RejectedRunState /\ [][C2_RejectedRunStep]_vars

C2_Witness ==
  /\ InputErrorShown
  /\ pc = "idle"
  /\ Len(processed_documents) > 1
  /\ "Voice Note" \in output_formats
  /\ uploaded_file.present

----------------------------------------------------------------------------
(* C3: an accepted run with Visual Explanation requested has a visual      *)
(* artifact once the visual stage is past, whatever the Summary and Voice  *)
(* Note stages did.                                                        *)
C3_VisualAlwaysProduced ==
  (Accepted /\ pc \in {"display", "idle"} /\ Requested("Visual Explanation")) =>
    /\ "visual" \in DOMAIN results
    /\ Len(results["visual"]) > 0

\* the summary call failed, the voice call failed, the visual is there
C3_Witness ==
  /\ pc = "idle"
  /\ Logged("Error with GPT processing")
  /\ Logged("Error generating voice note")
  /\ ~HasSummary
  /\ "audio" \notin DOMAIN results
  /\ "visual" \in DOMAIN results

----------------------------------------------------------------------------
ExpectedStages ==
  (IF Requested("Summary") THEN <<"Summary">> ELSE << >>)
    \o (IF Requested("Voice Note") THEN <<"Voice Note">> ELSE << >>)
    \o (IF Requested("Visual Explanation") THEN <<"Visual Explanation">> ELSE << >>)
    \o <<"display_results">>

(* C4: no capability outcome aborts an accepted run: the requested stages  *)
(* run in the order Summary, Voice Note, Visual Explanation, the run goes  *)
(* on to display_results and records one history entry, and a stage that   *)
(* failed or was unavailable leaves only its own artifact absent.          *)
C4_NoCapabilityOutcomeAborts ==
  Accepted =>
    /\ IsPrefix(stage_log, ExpectedStages)
    /\ api_calls = GptCalls \o TtsCalls
    /\ pc # "idle" => ENABLED NextRequest
    /\ pc = "idle" =>
         /\ stage_log = ExpectedStages
         /\ Logged("Results")
         /\ has_processed_documents
         /\ Len(processed_documents) = 1
         /\ Len(GptCalls) = (IF Requested("Summary") /\ api_key THEN 1 ELSE 0)
         /\ Len(TtsCalls) = (IF Requested("Voice Note") /\ tts_client THEN 1 ELSE 0)
         /\ HasSummary <=> Delivered(GptCalls)
         /\ "audio" \in DOMAIN results <=> Delivered(TtsCalls)
         /\ "visual" \in DOMAIN results <=> Requested("Visual Explanation")
         /\ processed_documents[1].has_visual = Requested("Visual Explanation")
         /\ processed_documents[1].has_audio = Delivered(TtsCalls)

\* both calls were made and both raised; the run still recorded its entry
C4_Witness ==
  /\ pc = "idle"
  /\ output_formats = Formats
  /\ Len(GptCalls) = 1 /\ GptCalls[1].raised
  /\ Len(TtsCalls) = 1 /\ TtsCalls[1].raised
  /\ stage_log = ExpectedStages
  /\ Len(processed_documents) = 1

----------------------------------------------------------------------------
VoiceSource == IF HasSummary THEN results["summary"] ELSE text_content.text

(* C5: with Voice Note requested and the synthesizer configured, the text  *)
(* sent to the synthesizer is the first 1000 characters of the summary     *)
(* artifact if the run produced one and of the original text otherwise;    *)
(* it is never longer than 1000 characters.                                *)
C5_VoiceSource ==
  (Accepted /\ pc \in {"visual", "display", "idle"}
     /\ Requested("Voice Note") /\ tts_client) =>
    /\ Len(TtsCalls) = 1
    /\ TtsCalls[1].input = Prefix(VoiceSource, VoiceLimit)
    /\ Len(TtsCalls[1].input) <= VoiceLimit
    /\ (~api_key \/ ~Delivered(GptCalls)) =>
         TtsCalls[1].input = Prefix(text_content.text, VoiceLimit)

\* a summary longer than the limit was cut for the synthesizer
C5_Witness ==
  /\ pc = "idle"
  /\ HasSummary
  /\ Len(results["summary"]) > VoiceLimit
  /\ Len(TtsCalls) = 1
  /\ Len(TtsCalls[1].input) = VoiceLimit

----------------------------------------------------------------------------
VisualSource == IF HasSummary THEN results["summary"] ELSE text_content.text

\* what stands between the two fixed parts of the visual prompt
Excerpt(prompt) ==
  SubSeq(prompt, Len(VisualPromptHead) + 1, Len(prompt) - Len(VisualPromptTail))

(* C6: with Visual Explanation requested, the excerpt embedded in the      *)
(* visual prompt is the first 300 characters of the summary artifact if    *)
(* the run produced one and of the original text otherwise; it is never    *)
(* longer than 300 characters, and a source of at most 300 characters is   *)
(* embedded whole.                                                         *)
C6_VisualExcerpt ==
  (Accepted /\ pc \in {"display", "idle"} /\ Requested("Visual Explanation")) =>
    /\ "visual" \in DOMAIN results
    /\ LET prompt == results["visual"]
       IN  /\ prompt = VisualPromptHead \o Excerpt(prompt) \o VisualPromptTail
           /\ Excerpt(prompt) = Prefix(VisualSource, VisualLimit)
           /\ Len(Excerpt(prompt)) <= VisualLimit
           /\ Len(VisualSource) <= VisualLimit => Excerpt(prompt) = VisualSource

\* a summary longer than 300 characters was cut for the prompt
C6_Witness ==
  /\ pc = "idle"
  /\ HasSummary
  /\ Len(results["summary"]) > VisualLimit
  /\ "visual" \in DOMAIN results
  /\ Len(Excerpt(results["visual"])) = VisualLimit

----------------------------------------------------------------------------
\* what stands between the fixed parts of the summarizer's prompt
Chunk(prompt) ==
  SubSeq(prompt,
         Len(GptPromptHead) + Len(LevelText(complexity_level))
           + Len(GptPromptMiddle) + 1,
         Len(prompt) - Len(GptPromptTail))

SummarizerGetsFirst4000 ==
  /\ Len(GptCalls) = 1
  /\ LET prompt == GptCalls[1].input
     IN  /\ prompt = GptPromptHead \o LevelText(complexity_level)
                       \o GptPromptMiddle \o Chunk(prompt) \o GptPromptTail
         /\ Chunk(prompt) = Prefix(text_content.text, SummaryLimit)
         /\ Len(text_content.text) <= SummaryLimit =>
              Chunk(prompt) = text_content.text

SummaryStagePast ==
  Accepted /\ pc \in {"voice", "visual", "display", "idle"}
    /\ Requested("Summary") /\ api_key

(* C7, as the claim states it: the Summarizer receives the first 4000      *)
(* characters of the text, and whenever its call succeeds the returned     *)
(* text is the run's summary artifact, for every text it can return.       *)
C7_EveryReturnedTextStored ==
  SummaryStagePast =>
    /\ SummarizerGetsFirst4000
    /\ ~GptCalls[1].raised =>
         HasSummary /\ results["summary"] = GptCalls[1].output

(* C7, amended: the Summarizer receives the first 4000 characters of the   *)
(* text; when its call succeeds with a non-empty text that text is the     *)
(* run's summary artifact, and when it returns the empty text (or raises)  *)
(* the run has no summary artifact.                                        *)
C7_NonEmptyReturnedTextStored ==
  SummaryStagePast =>
    /\ SummarizerGetsFirst4000
    /\ IF ~GptCalls[1].raised /\ Len(GptCalls[1].output) > 0
       THEN HasSummary /\ results["summary"] = GptCalls[1].output
       ELSE ~HasSummary

\* a text longer than 4000 characters was summarized and the summary stored
C7_Witness ==
  /\ pc = "idle"
  /\ Len(text_content.text) > SummaryLimit
  /\ Len(GptCalls) = 1
  /\ Len(Chunk(GptCalls[1].input)) = SummaryLimit
  /\ HasSummary
  /\ results["summary"] = GptCalls[1].output

----------------------------------------------------------------------------
(* C8: in every run that reaches the statistics the original length is     *)
(* greater than 0 and the division is defined; the compression ratio is 0  *)
(* exactly when the run has no summary artifact, and is otherwise          *)
(* len(summary) / len(original) * 100, which is greater than 0.            *)
C8_CompressionRatio ==
  ReachedStatistics =>
    /\ ~Logged("ZeroDivisionError")
    /\ metrics.original_length = Len(text_content.text)
    /\ metrics.original_length > 0
    /\ metrics.compression.den > 0
    /\ metrics.compression.num = 0 <=> ~HasSummary
    /\ HasSummary =>
         /\ metrics.compression.num * Len(text_content.text)
              = Len(results["summary"]) * 100 * metrics.compression.den
         /\ metrics.compression.num > 0

\* a one-character original with a summary: the ratio is above 100
C8_Witness ==
  /\ ReachedStatistics
  /\ HasSummary
  /\ metrics.original_length = 1
  /\ metrics.compression.num > 100 * metrics.compression.den

----------------------------------------------------------------------------
(* C9: the history list never holds more than 10 entries, and between runs *)
(* its length is min(n, 10), n the number of accepted runs so far, after   *)
(* any sequence of accepted runs, rejected runs and history views.         *)
C9_HistoryBounded ==
  /\ Len(processed_documents) <= HistoryLimit
  /\ has_processed_documents <=> Len(processed_documents) > 0
  /\ pc = "idle" =>
       Len(processed_documents) = Min(accepted_runs, HistoryLimit)

\* more accepted runs than the list holds, then a rejected run and a view
C9_Witness ==
  /\ pc = "idle"
  /\ accepted_runs > HistoryLimit
  /\ Len(processed_documents) = HistoryLimit
  /\ InputErrorShown
  /\ Len(shown.documents) = HistoryLimit

----------------------------------------------------------------------------
\* position i holds the entry of the i-th most recent accepted run, and the
\* history page lists the entries in that order
C10_NewestFirstState ==
  /\ pc = "idle" =>
       \A i \in 1..Len(processed_documents) :
         processed_documents[i].timestamp = accepted_runs - i + 1
  /\ \A i \in 1..Len(shown.documents) :
       /\ shown.documents[i].number = i
       /\ shown.documents[i].timestamp = processed_documents[i].timestamp
  /\ ReachedStatistics =>
       /\ processed_documents[1].original_length = Len(text_content.text)
       /\ processed_documents[1].summary = Get(results, "summary", << >>)

\* a recording puts the new entry in front, moves every entry that stays one
\* place back unchanged, and drops only the last entry of a full list
C10_RecordingStep ==
  processed_documents' # processed_documents =>
    /\ Len(processed_documents') = Min(Len(processed_documents) + 1, HistoryLimit)
    /\ processed_documents'[1].timestamp = accepted_runs
    /\ \A i \in 2..Len(processed_documents') :
         processed_documents'[i] = processed_documents[i - 1]

(* C10: the history list is newest first with eviction from the tail:      *)
(* position 0 holds the entry of the most recent run, position i that of   *)
(* the (i+1)-th most recent, surviving entries keep their relative order,  *)
(* and a recording that overflows removes only the oldest entry.           *)
C10_NewestFirst ==
  [] C10_NewestFirstState /\ [][C10_RecordingStep]_vars

\* eleven accepted runs: the first run's entry is gone, the other ten are
\* there, newest first, and the history page lists them
C10_Witness ==
  /\ pc = "idle"
  /\ accepted_runs = HistoryLimit + 1
  /\ Len(processed_documents) = HistoryLimit
  /\ processed_documents[1].timestamp = HistoryLimit + 1
  /\ processed_documents[HistoryLimit].timestamp = 2
  /\ Len(shown.documents) = HistoryLimit
  /\ \E i \in 1..HistoryLimit : processed_documents[i].has_visual
  /\ \E i \in 1..HistoryLimit : ~processed_documents[i].has_visual

----------------------------------------------------------------------------
\* the upload is one the claim names: an unreadable PDF, a PDF or text file
\* with no text in it, or a file of another type
UploadYieldsNoText ==
  /\ uploaded_file.present
  /\ \/ uploaded_file.type = "application/pdf"
        /\ (~uploaded_file.readable \/ uploaded_file.pages = << >>)
     \/ uploaded_file.type = "text/plain" /\ uploaded_file.bytes = << >>
     \/ uploaded_file.type \notin {"application/pdf", "text/plain"}

\* the text the upload itself holds
UploadText ==
  IF uploaded_file.type = "application/pdf"
  THEN PdfText(uploaded_file.pages)
  ELSE DecodeUtf8(uploaded_file.bytes).text

(* C11: when a file is uploaded the pasted text is never the document: an  *)
(* upload that yields no text ends the run in the input error with no      *)
(* history entry, even when the pasted text is non-empty; the pasted text  *)
(* is the document only when no file is uploaded.                          *)
C11_UploadShadowsPastedText ==
  pc # "process_content" =>
    /\ UploadYieldsNoText =>
         /\ InputErrorShown
         /\ pc = "idle"
         /\ stage_log = << >>
         /\ ~has_processed_documents
         /\ processed_documents = << >>
    /\ (Accepted /\ uploaded_file.present) => text_content.text = UploadText
    /\ (Accepted /\ ~uploaded_file.present) => text_content.text = manual_text

\* a file of another type with a pasted text beside it: rejected
C11_Witness ==
  /\ pc = "idle"
  /\ uploaded_file.present
  /\ uploaded_file.type = "application/octet-stream"
  /\ manual_text = HelloWorld
  /\ InputErrorShown
  /\ processed_documents = << >>

====
